---- MODULE Spec2Model ----
(***************************************************************************)
(* Model of src/optimizer.py: MCPToolRegistry (register / search / get)    *)
(* and the two agent-facing closures find_tool and call_tool.              *)
(*                                                                         *)
(* Strings are TLA+ strings handled character by character; Python values  *)
(* that cross the session boundary are tagged records [t |-> type, v |->   *)
(* payload] so that isinstance, truthiness and str() can be computed.      *)
(***************************************************************************)
EXTENDS Integers, Sequences, FiniteSets, TLC

VARIABLES tools, index, pc, ret, calls, reg

vars == <<tools, index, pc, ret, calls, reg>>

(***************************************************************************)
(* Bounds of the model.                                                    *)
(***************************************************************************)
MaxTools == 4

MaxBatch == 2

MaxTopK == 3

NegTopK == 2

(***************************************************************************)
(* Python values.                                                          *)
(***************************************************************************)
PyNone == [t |-> "NoneType"]

PyStr(s) == [t |-> "str", v |-> s]

PyInt(n) == [t |-> "int", v |-> n]

PyList(items) == [t |-> "list", v |-> items]

PyDict(pairs) == [t |-> "dict", v |-> pairs]

PyObject(attrs) == [t |-> "object", v |-> attrs]

IsInstance(x, type) == x.t = type

HasKey(d, key) == \E i \in 1..Len(d.v) : d.v[i][1] = key

DictGet(d, key, default) ==
    IF HasKey(d, key)
    THEN d.v[CHOOSE i \in 1..Len(d.v) : d.v[i][1] = key][2]
    ELSE default

Truthy(x) ==
    CASE x.t = "NoneType" -> FALSE
      [] x.t = "str" -> x.v # ""
      [] x.t = "int" -> x.v # 0
      [] x.t = "list" -> Len(x.v) > 0
      [] x.t = "dict" -> Len(x.v) > 0
      [] OTHER -> TRUE

(***************************************************************************)
(* Characters and strings.                                                 *)
(***************************************************************************)
Ch(s, i) == SubSeq(s, i, i)

UpperAlpha == "ABCDEFGHIJKLMNOPQRSTUVWXYZ"

LowerAlpha == "abcdefghijklmnopqrstuvwxyz"

Digits == "0123456789"

Chars(s) == {Ch(s, i) : i \in 1..Len(s)}

LowerOf ==
    [c \in Chars(UpperAlpha) |->
        Ch(LowerAlpha, CHOOSE i \in 1..Len(UpperAlpha) : Ch(UpperAlpha, i) = c)]

LowerCh(c) == IF c \in DOMAIN LowerOf THEN LowerOf[c] ELSE c

RECURSIVE Lower(_)
Lower(s) ==
    IF s = "" THEN ""
    ELSE LowerCh(Ch(s, 1)) \o Lower(SubSeq(s, 2, Len(s)))

WordChars == Chars(LowerAlpha) \cup Chars(UpperAlpha) \cup Chars(Digits) \cup {"_"}

IsWordCh(c) == c \in WordChars

IsSpaceCh(c) == c \in {" ", "\t", "\n", "\r", "\f"}

RECURSIVE LStrip(_)
LStrip(s) ==
    IF s # "" /\ IsSpaceCh(Ch(s, 1)) THEN LStrip(SubSeq(s, 2, Len(s))) ELSE s

RECURSIVE RStrip(_)
RStrip(s) ==
    IF s # "" /\ IsSpaceCh(Ch(s, Len(s)))
    THEN RStrip(SubSeq(s, 1, Len(s) - 1))
    ELSE s

Strip(s) == RStrip(LStrip(s))

(* re.findall(r"\w+", s), as a set: the maximal runs of word characters.   *)
RECURSIVE FindWords(_, _, _)
FindWords(s, i, cur) ==
    IF i > Len(s)
    THEN (IF cur = "" THEN {} ELSE {cur})
    ELSE IF IsWordCh(Ch(s, i))
         THEN FindWords(s, i + 1, cur \o Ch(s, i))
         ELSE (IF cur = "" THEN {} ELSE {cur}) \cup FindWords(s, i + 1, "")

Words(s) == FindWords(Lower(s), 1, "")

RECURSIVE Join(_, _)
Join(sep, parts) ==
    IF Len(parts) = 0 THEN ""
    ELSE IF Len(parts) = 1 THEN parts[1]
    ELSE parts[1] \o sep \o Join(sep, Tail(parts))

(* Python's seq[:k], negative k included.                                   *)
SliceTo(seq, k) ==
    IF k >= 0
    THEN SubSeq(seq, 1, IF k < Len(seq) THEN k ELSE Len(seq))
    ELSE SubSeq(seq, 1, IF Len(seq) + k > 0 THEN Len(seq) + k ELSE 0)

(***************************************************************************)
(* Inputs: the backends that connect and the tools they advertise.         *)
(***************************************************************************)
ObjectSchema == PyDict(<< <<"type", PyStr("object")>> >>)

McpTool(name, spec) == [tool_name |-> name, tool_spec |-> spec]

GetIssueTool ==
    McpTool("get_issue",
            PyDict(<< <<"description", PyStr("Get a Jira issue")>>,
                      <<"inputSchema", PyDict(<< <<"json", ObjectSchema>> >>)>> >>))

ListIssuesTool ==
    McpTool("list_issues",
            PyDict(<< <<"description", PyStr("list jira issues")>>,
                      <<"inputSchema", ObjectSchema>> >>))

(* Another backend's tool of the same name, advertised without a schema.   *)
PlainGetIssueTool ==
    McpTool("get_issue", PyDict(<< <<"description", PyStr("Get an issue")>> >>))

(* Each backend: its name, its live client, what list_tools_sync gives.    *)
Backends ==
    { [server_name |-> "Jira", started_client |-> "client_jira",
       advertises |-> {GetIssueTool, ListIssuesTool}],
      [server_name |-> "GitHub", started_client |-> "client_github",
       advertises |-> {PlainGetIssueTool}] }

RECURSIVE SeqsUpTo(_, _)
SeqsUpTo(S, n) ==
    IF n = 0 THEN {<< >>}
    ELSE LET shorter == SeqsUpTo(S, n - 1)
         IN shorter \cup {Append(q, x) : q \in shorter, x \in S}

Batches(backend) == SeqsUpTo(backend.advertises, MaxBatch)

(***************************************************************************)
(* MCPToolRegistry.                                                        *)
(***************************************************************************)
None == PyNone

EmptyIndex == [n \in {} |-> None]

(* The entry dict built in the body of register's loop.                    *)
MakeEntry(server_name, started_client, mcp_tool) ==
    LET name == mcp_tool.tool_name
        tool_spec == mcp_tool.tool_spec
        description == DictGet(tool_spec, "description", PyStr(""))
        raw_schema == DictGet(tool_spec, "inputSchema", PyDict(<< >>))
        input_schema == DictGet(raw_schema, "json", raw_schema)
    IN [name |-> Lower(server_name) \o "_" \o name,
        description |-> description.v,
        input_schema |-> input_schema,
        server_name |-> server_name,
        started_client |-> started_client]

(* A mutation of IndexPut: an existing key is kept (dict.setdefault).       *)
IndexPutKeepFirst(idx, name, entry) ==
    [n \in DOMAIN idx \cup {name} |-> IF n \in DOMAIN idx THEN idx[n] ELSE entry]

(* self._index[name] = entry                                               *)
IndexPut(idx, name, entry) ==
    [n \in DOMAIN idx \cup {name} |-> IF n = name THEN entry ELSE idx[n]]

(* register, as the state after the loop has run over the first n tools.   *)
RECURSIVE RegisterLoop(_, _, _, _, _)
RegisterLoop(tl, idx, server_name, started_client, mcp_tools) ==
    IF mcp_tools = << >>
    THEN [tools |-> tl, index |-> idx]
    ELSE LET entry == MakeEntry(server_name, started_client, Head(mcp_tools))
         IN RegisterLoop(Append(tl, entry),
                         IndexPut(idx, Head(mcp_tools).tool_name, entry),
                         server_name, started_client, Tail(mcp_tools))

(* score = len(found) / len(words), kept as the fraction <<num, den>>.     *)
Score(entry, words) ==
    LET text == Lower(entry.name \o " " \o entry.description)
        found == words \cap FindWords(text, 1, "")
    IN <<Cardinality(found), Cardinality(words)>>

ScoreGT(a, b) == a[1] * b[2] > b[1] * a[2]

ScorePositive(a) == a[1] > 0

(* A mutation of InsertDesc: an item goes before the items of equal score,  *)
(* as a sort that is not stable under reverse=True would place it.         *)
RECURSIVE InsertDescTiesFirst(_, _)
InsertDescTiesFirst(sorted, item) ==
    IF sorted = << >> THEN <<item>>
    ELSE IF ~ScoreGT(Head(sorted)[1], item[1])
         THEN <<item>> \o sorted
         ELSE <<Head(sorted)>> \o InsertDescTiesFirst(Tail(sorted), item)

(* list.sort(key=score, reverse=True): stable, descending by score.         *)
RECURSIVE InsertDesc(_, _)
InsertDesc(sorted, item) ==
    IF sorted = << >> THEN <<item>>
    ELSE IF ScoreGT(item[1], Head(sorted)[1])
         THEN <<item>> \o sorted
         ELSE <<Head(sorted)>> \o InsertDesc(Tail(sorted), item)

RECURSIVE SortDesc(_)
SortDesc(scored) ==
    IF scored = << >> THEN << >>
    ELSE InsertDesc(SortDesc(SubSeq(scored, 1, Len(scored) - 1)),
                    scored[Len(scored)])

RECURSIVE ScoreAll(_, _)
ScoreAll(tl, words) ==
    IF tl = << >> THEN << >>
    ELSE LET score == Score(Head(tl), words)
         IN (IF ScorePositive(score) THEN << <<score, Head(tl)>> >> ELSE << >>)
            \o ScoreAll(Tail(tl), words)

Search(tl, query, top_k) ==
    LET words == Words(query)
    IN IF words = {}
       THEN SliceTo(tl, top_k)
       ELSE LET scored == SortDesc(ScoreAll(tl, words))
                top == SliceTo(scored, top_k)
            IN [i \in 1..Len(top) |-> top[i][2]]

Get(idx, name) == IF name \in DOMAIN idx THEN idx[name] ELSE None

RECURSIVE Servers(_)
Servers(tl) ==
    IF tl = << >> THEN << >>
    ELSE LET seen == Servers(SubSeq(tl, 1, Len(tl) - 1))
             s == tl[Len(tl)].server_name
         IN IF \E i \in 1..Len(seen) : seen[i] = s THEN seen ELSE Append(seen, s)

(***************************************************************************)
(* json.loads on the JSON texts the model feeds it: objects, arrays,       *)
(* strings without escapes, integers and the three literals.               *)
(***************************************************************************)
PyBool(b) == [t |-> "bool", v |-> b]

IsJsonWs(c) == c \in {" ", "\t", "\n", "\r"}

IsDigit(c) == c \in Chars(Digits)

DigitVal(c) == (CHOOSE i \in 1..Len(Digits) : Ch(Digits, i) = c) - 1

RECURSIVE SkipWs(_, _)
SkipWs(s, i) == IF i <= Len(s) /\ IsJsonWs(Ch(s, i)) THEN SkipWs(s, i + 1) ELSE i

ParseFail(i) == [ok |-> FALSE, val |-> PyNone, next |-> i]

ParseOk(val, i) == [ok |-> TRUE, val |-> val, next |-> i]

RECURSIVE ScanString(_, _, _)
ScanString(s, i, acc) ==
    IF i > Len(s) THEN ParseFail(i)
    ELSE IF Ch(s, i) = "\"" THEN ParseOk(PyStr(acc), i + 1)
    ELSE IF Ch(s, i) \in {"\\", "\n", "\t", "\r", "\f"} THEN ParseFail(i)
    ELSE ScanString(s, i + 1, acc \o Ch(s, i))

RECURSIVE ScanDigits(_, _, _)
ScanDigits(s, i, acc) ==
    IF i <= Len(s) /\ IsDigit(Ch(s, i))
    THEN ScanDigits(s, i + 1, acc * 10 + DigitVal(Ch(s, i)))
    ELSE ParseOk(PyInt(acc), i)

ScanNumber(s, i) ==
    LET neg == i <= Len(s) /\ Ch(s, i) = "-"
        j == IF neg THEN i + 1 ELSE i
    IN IF j > Len(s) \/ ~IsDigit(Ch(s, j)) THEN ParseFail(j)
       ELSE IF Ch(s, j) = "0" THEN ParseOk(PyInt(0), j + 1)
       ELSE LET r == ScanDigits(s, j, 0)
            IN ParseOk(PyInt(IF neg THEN 0 - r.val.v ELSE r.val.v), r.next)

StartsAt(s, i, lit) ==
    i + Len(lit) - 1 <= Len(s) /\ SubSeq(s, i, i + Len(lit) - 1) = lit

RECURSIVE ParseValue(_, _)
RECURSIVE ParseElements(_, _, _)
RECURSIVE ParseMembers(_, _, _)

(* The elements of an array, positioned at the first one.                  *)
ParseElements(s, i, acc) ==
    LET e == ParseValue(s, SkipWs(s, i))
        j == SkipWs(s, e.next)
    IN IF ~e.ok \/ j > Len(s) THEN ParseFail(j)
       ELSE IF Ch(s, j) = "," THEN ParseElements(s, j + 1, Append(acc, e.val))
       ELSE IF Ch(s, j) = "]" THEN ParseOk(PyList(Append(acc, e.val)), j + 1)
       ELSE ParseFail(j)

(* The members of an object, positioned at the first key.                  *)
ParseMembers(s, i, acc) ==
    LET k0 == SkipWs(s, i)
    IN IF k0 > Len(s) \/ Ch(s, k0) # "\"" THEN ParseFail(k0)
       ELSE LET k == ScanString(s, k0 + 1, "")
                c == SkipWs(s, k.next)
            IN IF ~k.ok \/ c > Len(s) \/ Ch(s, c) # ":" THEN ParseFail(c)
               ELSE LET e == ParseValue(s, SkipWs(s, c + 1))
                        j == SkipWs(s, e.next)
                        pairs == Append(acc, <<k.val.v, e.val>>)
                    IN IF ~e.ok \/ j > Len(s) THEN ParseFail(j)
                       ELSE IF Ch(s, j) = "," THEN ParseMembers(s, j + 1, pairs)
                       ELSE IF Ch(s, j) = "}" THEN ParseOk(PyDict(pairs), j + 1)
                       ELSE ParseFail(j)

ParseValue(s, i) ==
    IF i > Len(s) THEN ParseFail(i)
    ELSE LET c == Ch(s, i)
         IN CASE c = "{" ->
                   LET j == SkipWs(s, i + 1)
                   IN IF j <= Len(s) /\ Ch(s, j) = "}"
                      THEN ParseOk(PyDict(<< >>), j + 1)
                      ELSE ParseMembers(s, i + 1, << >>)
              [] c = "[" ->
                   LET j == SkipWs(s, i + 1)
                   IN IF j <= Len(s) /\ Ch(s, j) = "]"
                      THEN ParseOk(PyList(<< >>), j + 1)
                      ELSE ParseElements(s, i + 1, << >>)
              [] c = "\"" -> ScanString(s, i + 1, "")
              [] c = "-" \/ IsDigit(c) -> ScanNumber(s, i)
              [] StartsAt(s, i, "true") -> ParseOk(PyBool(TRUE), i + 4)
              [] StartsAt(s, i, "false") -> ParseOk(PyBool(FALSE), i + 5)
              [] StartsAt(s, i, "null") -> ParseOk(PyNone, i + 4)
              [] OTHER -> ParseFail(i)

(* json.loads(s): ok is FALSE where json.JSONDecodeError is raised.        *)
JsonLoads(s) ==
    LET r == ParseValue(s, SkipWs(s, 1))
    IN IF r.ok /\ SkipWs(s, r.next) > Len(s) THEN r ELSE ParseFail(r.next)

(***************************************************************************)
(* str() and repr() of the values a session can return.                    *)
(***************************************************************************)
RECURSIVE Repr(_)
RECURSIVE ReprItems(_)
RECURSIVE ReprPairs(_)

ReprItems(items) ==
    IF items = << >> THEN << >>
    ELSE <<Repr(Head(items))>> \o ReprItems(Tail(items))

ReprPairs(pairs) ==
    IF pairs = << >> THEN << >>
    ELSE <<"'" \o Head(pairs)[1] \o "': " \o Repr(Head(pairs)[2])>>
         \o ReprPairs(Tail(pairs))

Repr(x) ==
    CASE x.t = "NoneType" -> "None"
      [] x.t = "str" -> "'" \o x.v \o "'"
      [] x.t = "int" -> ToString(x.v)
      [] x.t = "bool" -> (IF x.v THEN "True" ELSE "False")
      [] x.t = "list" -> "[" \o Join(", ", ReprItems(x.v)) \o "]"
      [] x.t = "dict" -> "{" \o Join(", ", ReprPairs(x.v)) \o "}"
      [] OTHER -> "<object>"

Str(x) == IF x.t = "str" THEN x.v ELSE Repr(x)

(***************************************************************************)
(* What a session does when call_tool_sync is called on it.                *)
(***************************************************************************)
Raises(exc, msg) == [raises |-> TRUE, exc |-> exc, msg |-> msg, result |-> PyNone]

Returns(result) == [raises |-> FALSE, exc |-> "", msg |-> "", result |-> result]

TextBlock(text) == PyDict(<< <<"text", text>> >>)

ToolResult(status, content) ==
    PyDict(<< <<"status", PyStr(status)>>, <<"content", content>> >>)

SessionResults ==
    { ToolResult("success", PyList(<<TextBlock(PyStr("ok"))>>)),
      ToolResult("success",
                 PyList(<< TextBlock(PyStr("a")), TextBlock(PyStr("")),
                           PyDict(<< <<"json", PyInt(1)>> >>),
                           PyObject(<< <<"text", PyStr("b")>> >>),
                           PyObject(<< >>), TextBlock(PyInt(5)) >>)),
      ToolResult("success", PyList(<< >>)),
      ToolResult("error", PyList(<<TextBlock(PyStr("boom"))>>)),
      ToolResult("error", PyList(<< >>)),
      ToolResult("success", PyNone),
      PyDict(<< <<"content", PyStr("raw")>> >>),
      PyDict(<< >>),
      PyNone, PyStr("plain"), PyStr(""), PyList(<< >>), PyInt(7) }

SessionOutcomes ==
    {Raises("ConnectionError", "session closed")}
        \cup {Returns(r) : r \in SessionResults}

(***************************************************************************)
(* find_tool and call_tool, the closures _make_tools builds.               *)
(***************************************************************************)
Ret(op, args, site, text, items) ==
    [op |-> op, args |-> args, site |-> site, text |-> text, items |-> items]

NoRet == Ret("none", << >>, "", "", << >>)

EmptyResultMarker == "(Tool returned an empty result)"

(* The numbered lines find_tool prints, one record per line group.         *)
Listing(results) ==
    [i \in 1..Len(results) |->
        [n |-> i,
         name |-> results[i].name,
         server_name |-> results[i].server_name,
         description |-> results[i].description,
         input_schema |-> results[i].input_schema]]

FindTool(tl, query0, top_k) ==
    LET query == Strip(query0)
        results == Search(tl, query, top_k)
        args == <<query0, top_k>>
    IN IF query = ""
       THEN Ret("find_tool", args, "EmptyQuery",
                "ERROR: query cannot be empty.", << >>)
       ELSE IF results = << >>
       THEN Ret("find_tool", args, "NoResults",
                "No tools found matching '" \o query \o "'.\nAvailable servers: "
                    \o (IF Servers(tl) = << >> THEN "none"
                        ELSE Join(", ", Servers(tl)))
                    \o "\nTry a broader search term.",
                << >>)
       ELSE Ret("find_tool", args, "Found",
                "Found " \o ToString(Len(results)) \o " tool(s) matching '"
                    \o query \o "':\n",
                Listing(results))

(* for block in content_blocks: the blocks iterated, or a TypeError.       *)
Iterable(x) == x.t \in {"list", "str", "dict"}

IterItems(x) ==
    CASE x.t = "list" -> x.v
      [] x.t = "str" -> [i \in 1..Len(x.v) |-> PyStr(Ch(x.v, i))]
      [] x.t = "dict" -> [i \in 1..Len(x.v) |-> PyStr(x.v[i][1])]

BlockText(block) ==
    IF IsInstance(block, "dict") THEN DictGet(block, "text", PyStr(""))
    ELSE IF IsInstance(block, "object") THEN DictGet(block, "text", PyStr(""))
    ELSE PyStr("")

RECURSIVE TextParts(_)
TextParts(blocks) ==
    IF blocks = << >> THEN << >>
    ELSE LET text == BlockText(Head(blocks))
         IN (IF Truthy(text) THEN <<Str(text)>> ELSE << >>)
            \o TextParts(Tail(blocks))

(* Lines 261-282: the text call_tool makes of the session's result.        *)
ExtractResult(tool_name, args, result) ==
    IF IsInstance(result, "dict")
    THEN LET status == DictGet(result, "status", PyStr("success"))
             content_blocks == DictGet(result, "content", PyList(<< >>))
         IN IF ~Iterable(content_blocks)
            THEN Ret("call_tool", args, "raise", "TypeError", << >>)
            ELSE LET text_parts == TextParts(IterItems(content_blocks))
                     output == IF text_parts # << >>
                               THEN Join("\n", text_parts)
                               ELSE Str(result)
                 IN IF status = PyStr("error")
                    THEN Ret("call_tool", args, "ToolReportedError",
                             "Tool '" \o tool_name \o "' returned an error:\n"
                                 \o output, << >>)
                    ELSE Ret("call_tool", args, "Output",
                             IF output # "" THEN output ELSE EmptyResultMarker,
                             << >>)
    ELSE Ret("call_tool", args, "Output",
             IF Truthy(result) THEN Str(result) ELSE EmptyResultMarker, << >>)

(* A mutation of ParseArguments: a string that does not parse is taken as  *)
(* no arguments instead of being reported.                                 *)
ParseArgumentsLenient(arguments) ==
    IF IsInstance(arguments, "dict")
    THEN ParseOk(arguments, 0)
    ELSE LET r == JsonLoads(Strip(IF Truthy(arguments) THEN arguments.v ELSE "{}"))
         IN IF r.ok THEN r ELSE ParseOk(PyDict(<< >>), 0)

(* Lines 211-216: the arguments as a value; ok is FALSE where json.loads   *)
(* raises JSONDecodeError.                                                  *)
ParseArguments(arguments) ==
    IF IsInstance(arguments, "dict")
    THEN ParseOk(arguments, 0)
    ELSE JsonLoads(Strip(IF Truthy(arguments) THEN arguments.v ELSE "{}"))

(* A mutation of Similar: the search default of 5 instead of 3.            *)
SimilarTop5(tl, tool_name) == Search(tl, tool_name, 5)

(* Line 228: similar = registry.search(tool_name, top_k=3)                 *)
Similar(tl, tool_name) == Search(tl, tool_name, 3)

(* Line 229: the suggestions printed after "Did you mean".                 *)
Suggestions(similar) ==
    IF similar # << >>
    THEN Join(", ", [i \in 1..Len(similar) |-> similar[i].name])
    ELSE "none found"

(* Lines 206-234: what call_tool does before it reaches the session.       *)
(* invoke says whether it goes on to call_tool_sync, and with what.  The   *)
(* InvalidArguments text stops before the decoder's own message.           *)
Dispatch(tl, idx, tool_name0, arguments) ==
    LET tool_name == Strip(tool_name0)
        args == <<tool_name0, arguments>>
        parsed == ParseArguments(arguments)
        entry == Get(idx, tool_name)
        similar == Similar(tl, tool_name)
        stop(r) == [invoke |-> FALSE, ret |-> r, client |-> "",
                    name |-> tool_name, arguments |-> PyNone]
    IN IF tool_name = ""
       THEN stop(Ret("call_tool", args, "EmptyToolName",
                     "ERROR: tool_name is required. Use find_tool to discover tool names.",
                     << >>))
       ELSE IF ~parsed.ok
       THEN stop(Ret("call_tool", args, "InvalidArguments",
                     "ERROR: arguments must be a valid JSON string.\nReceived: "
                         \o Repr(PyStr(Strip(IF Truthy(arguments)
                                             THEN arguments.v ELSE "{}"))),
                     << >>))
       ELSE IF entry = None
       THEN stop(Ret("call_tool", args, "ToolNotFound",
                     "ERROR: Tool '" \o tool_name
                         \o "' not found in registry.\nDid you mean: "
                         \o Suggestions(similar)
                         \o "?\nUse find_tool to search for the correct tool name.",
                     similar))
       ELSE [invoke |-> TRUE, ret |-> NoRet, client |-> entry.started_client,
             name |-> tool_name, arguments |-> parsed.val]

(* A mutation of Invoke: no try/except around call_tool_sync.              *)
InvokeUncaught(d, args, outcome) ==
    IF outcome.raises
    THEN Ret("call_tool", args, "raise", outcome.exc, << >>)
    ELSE ExtractResult(d.name, args, outcome.result)

(* Lines 245-282: the one call_tool_sync and what is made of its outcome.  *)
Invoke(d, args, outcome) ==
    IF outcome.raises
    THEN Ret("call_tool", args, "TransportError",
             "ERROR calling '" \o d.name \o "': " \o outcome.exc \o ": "
                 \o outcome.msg
                 \o "\nThe MCP session for this tool may have closed. Try restarting the agent.",
             << >>)
    ELSE ExtractResult(d.name, args, outcome.result)

(***************************************************************************)
(* What the agent and the raw registry are asked.                          *)
(***************************************************************************)
Queries ==
    {"", "   ", "?", "issue", "get jira issue", "Jira ISSUES", "jira get",
     "github"}

TopKs == (0 - NegTopK)..MaxTopK

ToolNames ==
    {"", "  ", "get_issue", " list_issues ", "jira_get_issue",
     "nonexistent_tool", "jira", "?"}

ArgumentValues ==
    { PyStr("{}"), PyStr(""), PyStr("   "), PyStr("not valid json"),
      PyStr("{\"issue_key\": \"RBTES-121\"}"), PyStr(" [1, true] "),
      PyStr("{\"a\": }"), PyStr("\f{}"), PyDict(<< <<"issue_key", PyStr("RBTES-121")>> >>) }

(***************************************************************************)
(* The state machine.  tools and index are the registry's _tools and       *)
(* _index; pc, ret and calls are the agent's one outstanding call, its     *)
(* return value and the call_tool_sync calls it made; reg is the frame of  *)
(* a register call that is running statement by statement.                 *)
(***************************************************************************)
RegIdle ==
    [pc |-> "idle", server_name |-> "", started_client |-> "",
     mcp_tools |-> << >>, entry |-> None, count |-> 0]

Init ==
    /\ tools = << >>
    /\ index = EmptyIndex
    /\ pc = "idle"
    /\ ret = NoRet
    /\ calls = << >>
    /\ reg = RegIdle

(* register(server_name, started_client, mcp_tools), run to completion.    *)
register(backend, mcp_tools) ==
    /\ pc = "idle"
    /\ reg.pc = "idle"
    /\ Len(tools) + Len(mcp_tools) <= MaxTools
    /\ LET after == RegisterLoop(tools, index, backend.server_name,
                                 backend.started_client, mcp_tools)
       IN /\ tools' = after.tools
          /\ index' = after.index
    /\ ret' = Ret("register", <<backend.server_name, mcp_tools>>, "return",
                  ToString(Len(mcp_tools)), << >>)
    /\ pc' = "returned"
    /\ UNCHANGED <<calls, reg>>

search(query, top_k) ==
    /\ pc = "idle"
    /\ ret' = Ret("search", <<query, top_k>>, "return", "",
                  Search(tools, query, top_k))
    /\ pc' = "returned"
    /\ UNCHANGED <<tools, index, calls, reg>>

get(name) ==
    /\ pc = "idle"
    /\ ret' = Ret("get", <<name>>, "return", "", <<Get(index, name)>>)
    /\ pc' = "returned"
    /\ UNCHANGED <<tools, index, calls, reg>>

find_tool(query, top_k) ==
    /\ pc = "idle"
    /\ ret' = FindTool(tools, query, top_k)
    /\ pc' = "returned"
    /\ UNCHANGED <<tools, index, calls, reg>>

call_tool(tool_name, arguments) ==
    /\ pc = "idle"
    /\ LET d == Dispatch(tools, index, tool_name, arguments)
       IN IF d.invoke
          THEN \E outcome \in SessionOutcomes :
                  /\ calls' = <<[client |-> d.client, name |-> d.name,
                                 arguments |-> d.arguments,
                                 outcome |-> outcome]>>
                  /\ ret' = Invoke(d, <<tool_name, arguments>>, outcome)
          ELSE /\ calls' = << >>
               /\ ret' = d.ret
    /\ pc' = "returned"
    /\ UNCHANGED <<tools, index, reg>>

(* The agent runtime takes the returned value; the next call can start.    *)
agent_receives ==
    /\ pc = "returned"
    /\ pc' = "idle"
    /\ ret' = NoRet
    /\ calls' = << >>
    /\ UNCHANGED <<tools, index, reg>>

Next ==
    \/ \E backend \in Backends : \E mcp_tools \in Batches(backend) :
          register(backend, mcp_tools)
    \/ \E query \in Queries, top_k \in TopKs : search(query, top_k)
    \/ \E name \in ToolNames : get(name)
    \/ \E query \in Queries, top_k \in TopKs : find_tool(query, top_k)
    \/ \E tool_name \in ToolNames, arguments \in ArgumentValues :
          call_tool(tool_name, arguments)
    \/ agent_receives

Spec == Init /\ [][Next]_vars

(***************************************************************************)
(* register running statement by statement in its own thread, while the    *)
(* agent's calls read the registry.  Nothing in the source takes a lock.   *)
(***************************************************************************)
register_begin(backend, mcp_tools) ==
    /\ reg.pc = "idle"
    /\ Len(tools) + Len(mcp_tools) <= MaxTools
    /\ reg' = [pc |-> "loop", server_name |-> backend.server_name,
               started_client |-> backend.started_client,
               mcp_tools |-> mcp_tools, entry |-> None, count |-> 0]
    /\ UNCHANGED <<tools, index, pc, ret, calls>>

(* Lines 52-66: build the entry and append it to _tools.                   *)
register_append ==
    /\ reg.pc = "loop"
    /\ reg.mcp_tools # << >>
    /\ LET entry == MakeEntry(reg.server_name, reg.started_client,
                              Head(reg.mcp_tools))
       IN /\ tools' = Append(tools, entry)
          /\ reg' = [reg EXCEPT !.pc = "index", !.entry = entry]
    /\ UNCHANGED <<index, pc, ret, calls>>

(* Lines 67-68: store the entry in _index and count it.                    *)
register_index ==
    /\ reg.pc = "index"
    /\ index' = IndexPut(index, Head(reg.mcp_tools).tool_name, reg.entry)
    /\ reg' = [reg EXCEPT !.pc = "loop", !.mcp_tools = Tail(reg.mcp_tools),
                          !.entry = None, !.count = reg.count + 1]
    /\ UNCHANGED <<tools, pc, ret, calls>>

(* Line 69: return count.                                                  *)
register_return ==
    /\ reg.pc = "loop"
    /\ reg.mcp_tools = << >>
    /\ reg' = RegIdle
    /\ UNCHANGED <<tools, index, pc, ret, calls>>

NextConcurrent ==
    \/ \E backend \in Backends : \E mcp_tools \in Batches(backend) :
          register_begin(backend, mcp_tools)
    \/ register_append
    \/ register_index
    \/ register_return
    \/ \E query \in Queries, top_k \in TopKs : search(query, top_k)
    \/ \E name \in ToolNames : get(name)
    \/ \E tool_name \in ToolNames, arguments \in ArgumentValues :
          call_tool(tool_name, arguments)
    \/ agent_receives

ConcurrentSpec == Init /\ [][NextConcurrent]_vars

(***************************************************************************)
(* Vocabulary of the properties.                                           *)
(***************************************************************************)
Returned(op) == pc = "returned" /\ ret.op = op

(* The name the backend reported: the qualified name without its prefix.   *)
RawNameOf(entry) ==
    SubSeq(entry.name, Len(entry.server_name) + 2, Len(entry.name))

Take(seq, k) == SubSeq(seq, 1, IF k < Len(seq) THEN k ELSE Len(seq))

IsPrefixOf(a, b) == Len(a) <= Len(b) /\ \A i \in 1..Len(a) : a[i] = b[i]

SharedTokens(entry, query) ==
    Words(query) \cap Words(entry.name \o " " \o entry.description)

KeepLevel(tl, query, n) ==
    LET hit(i) == Cardinality(SharedTokens(tl[i], query)) = n
        F[i \in 0..Len(tl)] ==
            IF i = 0 THEN << >>
            ELSE IF hit(i) THEN Append(F[i - 1], tl[i]) ELSE F[i - 1]
    IN F[Len(tl)]

(* The descriptors sharing a token with the query, most shared tokens      *)
(* first, registration order within one count.                             *)
RECURSIVE RankedFrom(_, _, _)
RankedFrom(tl, query, n) ==
    IF n = 0 THEN << >>
    ELSE KeepLevel(tl, query, n) \o RankedFrom(tl, query, n - 1)

Reference(tl, query) == RankedFrom(tl, query, Cardinality(Words(query)))

NamesOf(entries) == [i \in 1..Len(entries) |-> entries[i].name]

(* JSON validity of the string as the caller wrote it.                     *)
ValidJson(arguments) == JsonLoads(arguments.v).ok

(***************************************************************************)
(* C1.  Every tool name find_tool prints in its result list is a name      *)
(* call_tool accepts: called with that name and the arguments "{}" it      *)
(* resolves the descriptor and goes on to the session, instead of          *)
(* answering "not found in registry".                                      *)
(***************************************************************************)
C1_FoundNamesAreCallable ==
    Returned("find_tool") =>
        \A i \in 1..Len(ret.items) :
            Dispatch(tools, index, ret.items[i].name, PyStr("{}")).invoke

(***************************************************************************)
(* C2.  In every step: afterwards get(rawName) is the descriptor of the    *)
(* latest registration of rawName still in the list (absent when there is  *)
(* none); the list only grows at its end, by exactly the descriptors of    *)
(* the registered batch, in order; nothing is removed or changed.          *)
(***************************************************************************)
LatestOf(tl, name) ==
    LET hits == {i \in 1..Len(tl) : RawNameOf(tl[i]) = name}
    IN IF hits = {} THEN None
       ELSE tl[CHOOSE i \in hits : \A j \in hits : j <= i]

RawNames(tl) == {RawNameOf(tl[i]) : i \in 1..Len(tl)}

C2_Step ==
    /\ \A name \in ToolNames \cup RawNames(tools') :
          Get(index', name) = LatestOf(tools', name)
    /\ IsPrefixOf(tools, tools')
    /\ (pc' = "returned" /\ ret'.op = "register") =>
          LET server_name == ret'.args[1]
              mcp_tools == ret'.args[2]
          IN /\ Len(tools') = Len(tools) + Len(mcp_tools)
             /\ \A k \in 1..Len(mcp_tools) :
                   /\ tools'[Len(tools) + k].name =
                          Lower(server_name) \o "_" \o mcp_tools[k].tool_name
                   /\ tools'[Len(tools) + k].server_name = server_name
    /\ ~(pc' = "returned" /\ ret'.op = "register") => tools' = tools

C2_LastRegistrationWins == [][C2_Step]_vars

(* get has answered with the GitHub descriptor that replaced a Jira one    *)
(* of the same raw name, and the replaced one is still in the list.        *)
C2_Witness ==
    /\ Returned("get")
    /\ \E i, j \in 1..Len(tools) :
          /\ i < j
          /\ RawNameOf(tools[i]) = ret.args[1]
          /\ RawNameOf(tools[j]) = ret.args[1]
          /\ tools[i].server_name # tools[j].server_name
          /\ ret.items[1] = tools[j]
          /\ ret.items[1] # tools[i]

(***************************************************************************)
(* C3.  While register runs beside the readers, every descriptor in the    *)
(* ordered list is resolvable through the lookup map under its raw name,   *)
(* in every state a reader can see.                                        *)
(***************************************************************************)
C3_NoTornCatalog ==
    \A i \in 1..Len(tools) : Get(index, RawNameOf(tools[i])) # None

(***************************************************************************)
(* C4.  For a query with at least one word token and topK >= 0, search     *)
(* returns exactly the first topK descriptors of the reference list:       *)
(* those sharing a token with the query, by descending score, equal        *)
(* scores in registration order; none of them has score 0.                 *)
(***************************************************************************)
C4_SearchIsRankedPrefix ==
    (/\ Returned("search")
     /\ Words(ret.args[1]) # {}
     /\ ret.args[2] >= 0) =>
        /\ ret.items = Take(Reference(tools, ret.args[1]), ret.args[2])
        /\ \A i \in 1..Len(ret.items) :
              SharedTokens(ret.items[i], ret.args[1]) # {}

(* A search cut short by topK, whose ranking moves a later registration    *)
(* to the front and holds two different descriptors of equal score.        *)
C4_Witness ==
    /\ Returned("search")
    /\ Words(ret.args[1]) # {}
    /\ ret.args[2] = 2
    /\ Len(ret.items) = 2
    /\ LET ranked == Reference(tools, ret.args[1])
           shared(i) == Cardinality(SharedTokens(ranked[i], ret.args[1]))
       IN /\ Len(ranked) > 2
          /\ \E i, j \in 1..Len(ranked) :
                i < j /\ shared(i) = shared(j) /\ ranked[i] # ranked[j]
          /\ \E i, j \in 1..Len(tools) :
                /\ i < j
                /\ Cardinality(SharedTokens(tools[i], ret.args[1])) > 0
                /\ Cardinality(SharedTokens(tools[i], ret.args[1]))
                      < Cardinality(SharedTokens(tools[j], ret.args[1]))

(***************************************************************************)
(* C5.  For a query without word tokens and any integer topK, search       *)
(* returns the first min(max(topK, 0), total) descriptors in registration  *)
(* order: nothing for topK <= 0.                                           *)
(***************************************************************************)
C5_EmptyQueryClampsTopK ==
    (Returned("search") /\ Words(ret.args[1]) = {}) =>
        ret.items = Take(tools, IF ret.args[2] > 0 THEN ret.args[2] ELSE 0)

(***************************************************************************)
(* C6, as claimed.  For a tool name that is not blank and a string         *)
(* argument that is not valid JSON, call_tool answers InvalidArguments     *)
(* and calls no session.                                                   *)
(***************************************************************************)
C6_InvalidJsonRejected ==
    (/\ Returned("call_tool")
     /\ Strip(ret.args[1]) # ""
     /\ IsInstance(ret.args[2], "str")
     /\ ~ValidJson(ret.args[2])) =>
        ret.site = "InvalidArguments" /\ calls = << >>

(***************************************************************************)
(* C6, amended.  For a tool name that is not blank and a string argument   *)
(* that, with the whitespace around it removed, is neither empty nor       *)
(* valid JSON, call_tool answers InvalidArguments and calls no session,    *)
(* whether or not the name is registered.                                  *)
(***************************************************************************)
C6_StrippedInvalidJsonRejected ==
    (/\ Returned("call_tool")
     /\ Strip(ret.args[1]) # ""
     /\ IsInstance(ret.args[2], "str")
     /\ ret.args[2].v # ""
     /\ ~ValidJson(PyStr(Strip(ret.args[2].v)))) =>
        ret.site = "InvalidArguments" /\ calls = << >>

(* Malformed JSON sent to a tool that is registered.                       *)
C6_Witness ==
    /\ Returned("call_tool")
    /\ IsInstance(ret.args[2], "str")
    /\ Strip(ret.args[2].v) # ""
    /\ ~ValidJson(PyStr(Strip(ret.args[2].v)))
    /\ Get(index, Strip(ret.args[1])) # None
    /\ ret.site = "InvalidArguments"

(***************************************************************************)
(* C7.  For a tool name that is not blank and that get does not resolve,   *)
(* with valid JSON arguments, call_tool answers ToolNotFound; what it      *)
(* suggests is the qualified names of search(toolName, 3), in that order,  *)
(* at most 3, or "none found" when there are none; no session is called.   *)
(***************************************************************************)
ExpectedSimilar(tl, tool_name) ==
    IF Words(tool_name) = {}
    THEN Take(tl, 3)
    ELSE Take(Reference(tl, tool_name), 3)

C7_NotFoundSuggestsTop3 ==
    (/\ Returned("call_tool")
     /\ Strip(ret.args[1]) # ""
     /\ Get(index, Strip(ret.args[1])) = None
     /\ (IsInstance(ret.args[2], "dict") \/ ValidJson(ret.args[2]))) =>
        LET tool_name == Strip(ret.args[1])
            expected == ExpectedSimilar(tools, tool_name)
        IN /\ ret.site = "ToolNotFound"
           /\ calls = << >>
           /\ ret.items = expected
           /\ Len(ret.items) <= 3
           /\ ret.text =
                 "ERROR: Tool '" \o tool_name
                     \o "' not found in registry.\nDid you mean: "
                     \o (IF expected = << >> THEN "none found"
                         ELSE Join(", ", NamesOf(expected)))
                     \o "?\nUse find_tool to search for the correct tool name."

(* Four descriptors match the unknown name and three are suggested.        *)
C7_Witness ==
    /\ Returned("call_tool")
    /\ ret.site = "ToolNotFound"
    /\ Words(ret.args[1]) # {}
    /\ Len(Reference(tools, Strip(ret.args[1]))) > 3
    /\ Len(ret.items) = 3

(***************************************************************************)
(* C8.  In every step in which call_tool reaches a session that raises:    *)
(* it returns the TransportError text, with the advice that the session    *)
(* may have closed, and raises nothing; the session was called exactly     *)
(* once; the catalog is as it was.                                         *)
(***************************************************************************)
SessionRaised(c) == Len(c) > 0 /\ c[1].outcome.raises

Advice == "The MCP session for this tool may have closed. Try restarting the agent."

EndsWith(s, tail) ==
    Len(s) >= Len(tail) /\ SubSeq(s, Len(s) - Len(tail) + 1, Len(s)) = tail

C8_Step ==
    (pc' = "returned" /\ ret'.op = "call_tool" /\ SessionRaised(calls')) =>
        /\ ret'.site = "TransportError"
        /\ EndsWith(ret'.text, Advice)
        /\ Len(calls') = 1
        /\ calls'[1].client = Get(index, Strip(ret'.args[1])).started_client
        /\ tools' = tools
        /\ index' = index

C8_TransportErrorReturned == [][C8_Step]_vars

(* call_tool has returned from a call in which the session raised.        *)
C8_Witness ==
    /\ Returned("call_tool")
    /\ SessionRaised(calls)
    /\ ret.site = "TransportError"

(***************************************************************************)
(* C9.  find_tool and call_tool never raise: whatever the input and        *)
(* whatever the session does, each returns a string.                       *)
(***************************************************************************)
C9_NeverRaises ==
    (Returned("find_tool") \/ Returned("call_tool")) => ret.site # "raise"

(***************************************************************************)
(* C10.  For a session result that is a map with a status other than       *)
(* "error" and a list of blocks as content (or none): call_tool returns    *)
(* the non-empty block texts joined by newlines; with no text, the string  *)
(* form of the result if the result is not empty, and the empty-result     *)
(* marker if it is; never the empty string.                                *)
(***************************************************************************)
C10_NormalizedOutput ==
    (/\ Returned("call_tool")
     /\ Len(calls) > 0
     /\ ~calls[1].outcome.raises
     /\ IsInstance(calls[1].outcome.result, "dict")
     /\ DictGet(calls[1].outcome.result, "status", PyStr("success"))
            # PyStr("error")
     /\ IsInstance(DictGet(calls[1].outcome.result, "content", PyList(<< >>)),
                   "list")) =>
        LET result == calls[1].outcome.result
            texts == TextParts(DictGet(result, "content", PyList(<< >>)).v)
        IN /\ ret.text # ""
           /\ ret.text = IF texts # << >> THEN Join("\n", texts)
                         ELSE IF Truthy(result) THEN Str(result)
                         ELSE EmptyResultMarker

====
